---- MODULE Spec2Model ----
(***************************************************************************)
(* A model of ITBase64.c: the Base64 encoder ITBase64EncodedStringCreate,  *)
(* the decoder ITBase64DecodedDataCreate and their helpers encodeWord,     *)
(* charToByte, decodeWord and whiteSpaceFreeStringCreate.                  *)
(*                                                                         *)
(* Characters are their ASCII codes, bytes are 0..255.  A C buffer is a    *)
(* sequence; C index i is sequence index i + 1.  A cell that malloc        *)
(* returned and nothing wrote yet holds Uninit.                            *)
(***************************************************************************)
EXTENDS Integers, Sequences, FiniteSets, TLC

VARIABLES bits, data, string, enc, dec, dec2, pc

vars == <<bits, data, string, enc, dec, dec2, pc>>

(***************************************************************************)
(* Bounds of the explored inputs.                                          *)
(***************************************************************************)
MaxDataLen == 4
MaxTextLen == 8
MaxWsLen == 5
MaxCanonLen == 6
MaxBits == 5

MinBits == 2

(***************************************************************************)
(* Values of the C program.                                                *)
(***************************************************************************)
UIntBits == 32

Uninit == -1

\* unsigned int arithmetic at width w: a result is reduced modulo 2^w.  Every
\* number TLC can represent is below 2^31, so the reduction at
\* w >= 31 changes nothing.
UIntWrap(x, w) == IF w >= 31 THEN x ELSE x % (2 ^ w)

RECURSIVE And(_, _)
And(x, y) ==
    IF x = 0 \/ y = 0 THEN 0
    ELSE (x % 2) * (y % 2) + 2 * And(x \div 2, y \div 2)

RECURSIVE Or(_, _)
Or(x, y) ==
    IF x = 0 THEN y
    ELSE IF y = 0 THEN x
    ELSE (IF x % 2 = 1 \/ y % 2 = 1 THEN 1 ELSE 0) + 2 * Or(x \div 2, y \div 2)

Shl(x, n) == x * (2 ^ n)

Shr(x, n) == x \div (2 ^ n)

\* (uint8_t) conversion of an int expression
U8(x) == x % 256

\* isWhiteSpace without the carriage return
isWhiteSpaceNoCR(c) == c = 32 \/ c = 9 \/ c = 10

isWhiteSpace(c) == c = 32 \/ c = 9 \/ c = 13 \/ c = 10

\* "ABCDEFGHIJKLMNOPQRSTUVWXYZabcdefghijklmnopqrstuvwxyz0123456789+/"
ITBase64AdditionsEncodingTable ==
    << 65, 66, 67, 68, 69, 70, 71, 72, 73, 74, 75, 76, 77,
       78, 79, 80, 81, 82, 83, 84, 85, 86, 87, 88, 89, 90,
       97, 98, 99, 100, 101, 102, 103, 104, 105, 106, 107, 108, 109,
       110, 111, 112, 113, 114, 115, 116, 117, 118, 119, 120, 121, 122,
       48, 49, 50, 51, 52, 53, 54, 55, 56, 57, 43, 47 >>

(***************************************************************************)
(* encodeWord: 3 bytes to 4 characters written at dest[at .. at + 3].      *)
(***************************************************************************)
encodeWord(bytes, dest, at, lastWord) ==
    LET d0 == ITBase64AdditionsEncodingTable[Shr(And(bytes[1], 252), 2) + 1]
        d1 == ITBase64AdditionsEncodingTable[
                  Or(Shl(And(bytes[1], 3), 4), Shr(And(bytes[2], 240), 4)) + 1]
        d2 == ITBase64AdditionsEncodingTable[
                  Or(Shl(And(bytes[2], 15), 2), Shr(And(bytes[3], 192), 6)) + 1]
        d3 == ITBase64AdditionsEncodingTable[And(bytes[3], 63) + 1]
        w == [dest EXCEPT ![at + 1] = d0, ![at + 2] = d1, ![at + 3] = d2]
    IN  IF d2 = 65 /\ lastWord
        THEN [w EXCEPT ![at + 3] = 61, ![at + 4] = 61]
        ELSE IF d3 = 65 /\ lastWord
             THEN [w EXCEPT ![at + 4] = 61]
             ELSE [w EXCEPT ![at + 4] = d3]

(***************************************************************************)
(* charToByte: the 6-bit value of a character, 0 for '=', 0xff on error.   *)
(***************************************************************************)
charToByte(c) ==
    IF c >= 65 /\ c <= 90 THEN U8(c - 65)
    ELSE IF c >= 97 /\ c <= 122 THEN U8(c - 97 + 26)
    ELSE IF c >= 48 /\ c <= 57 THEN U8(c - 48 + 52)
    ELSE IF c = 43 THEN 62
    ELSE IF c = 47 THEN 63
    ELSE IF c = 61 THEN 0
    ELSE 255

(***************************************************************************)
(* A malloc'ed byte buffer: mem are its cells, hi is one more than the     *)
(* highest index a store was made to (0 when nothing was stored).  A store *)
(* past the end of the cells leaves them alone and is seen in hi only.     *)
(***************************************************************************)
malloc(n) == [mem |-> [i \in 1..n |-> Uninit], hi |-> 0]

Store(buf, i, v) ==
    [mem |-> IF i < Len(buf.mem) THEN [buf.mem EXCEPT ![i + 1] = v] ELSE buf.mem,
     hi  |-> IF i + 1 > buf.hi THEN i + 1 ELSE buf.hi]

realloc(buf, n) ==
    [mem |-> [i \in 1..n |-> IF i <= Len(buf.mem) THEN buf.mem[i] ELSE Uninit],
     hi  |-> buf.hi]

(***************************************************************************)
(* decodeWord: 4 characters to at most 3 bytes stored at dest[at ..]; n is *)
(* the returned count, 0 on error.                                         *)
(***************************************************************************)
decodeWord(chars, dest, at) ==
    LET c0 == charToByte(chars[1])
        c1 == charToByte(chars[2])
        c2 == charToByte(chars[3])
        c3 == charToByte(chars[4])
        w0 == Store(dest, at, U8(Or(Shl(c0, 2), Shr(And(c1, 48), 4))))
        w1 == Store(w0, at + 1, U8(Or(Shl(And(c1, 15), 4), Shr(And(c2, 60), 2))))
        w2 == Store(w1, at + 2, U8(Or(Shl(And(c2, 3), 6), c3)))
    IN  IF c0 = 255 \/ c1 = 255 THEN [n |-> 0, dest |-> dest]
        ELSE IF chars[3] = 61 THEN [n |-> 1, dest |-> w0]
        ELSE IF c2 = 255 THEN [n |-> 0, dest |-> w0]
        ELSE IF chars[4] = 61 THEN [n |-> 2, dest |-> w1]
        ELSE IF c3 = 255 THEN [n |-> 0, dest |-> w1]
        ELSE [n |-> 3, dest |-> w2]

(***************************************************************************)
(* whiteSpaceFreeStringCreate: the characters of str[0 .. len - 1] that    *)
(* are not white space, in a new buffer of len cells; resultLen of them    *)
(* are written.                                                            *)
(***************************************************************************)
RECURSIVE whiteSpaceLoop(_, _, _, _, _)
whiteSpaceLoop(str, len, i, destPtr, resultLen) ==
    IF i < len
    THEN LET c == str[i + 1]
         IN  IF ~isWhiteSpace(c)
             THEN whiteSpaceLoop(str, len, i + 1,
                                 [destPtr EXCEPT ![resultLen + 1] = c], resultLen + 1)
             ELSE whiteSpaceLoop(str, len, i + 1, destPtr, resultLen)
    ELSE [dest |-> destPtr, resultLen |-> resultLen]

whiteSpaceFreeStringCreate(str, len) ==
    whiteSpaceLoop(str, len, 0, [i \in 1..len |-> Uninit], 0)

(***************************************************************************)
(* ITBase64EncodedStringCreate                                             *)
(***************************************************************************)
\* resultSize with a word added for the rest also when there is no rest
resultSizeExtraWord(len, w) ==
    UIntWrap((len \div 3 + 1) * 4, w)

resultSize(len, w) ==
    UIntWrap((len \div 3 + (IF len % 3 # 0 THEN 1 ELSE 0)) * 4, w)

RECURSIVE encodeLoop(_, _, _, _, _)
encodeLoop(ptr, dest, srcIndex, destIndex, effLen) ==
    IF srcIndex < effLen
    THEN encodeLoop(ptr,
                    encodeWord(SubSeq(ptr, srcIndex + 1, srcIndex + 3), dest,
                               destIndex, FALSE),
                    srcIndex + 3, destIndex + 4, effLen)
    ELSE dest

ITBase64EncodedStringCreate(ptr, len, w) ==
    LET size == resultSize(len, w)
        restLen == len % 3
        effLen == len - restLen
        dest0 == [i \in 1..(size + 1) |-> Uninit]
        dest1 == encodeLoop(ptr, dest0, 0, 0, effLen)
        restWord == [i \in 1..3 |-> IF i <= restLen THEN ptr[effLen + i] ELSE 0]
        dest2 == IF restLen # 0
                 THEN encodeWord(restWord, dest1, size - 4, TRUE)
                 ELSE dest1
    IN  [dest |-> [dest2 EXCEPT ![size + 1] = 0], stringLength |-> size]

(***************************************************************************)
(* ITBase64DecodedDataCreate                                               *)
(***************************************************************************)
RECURSIVE decodeLoop(_, _, _, _, _, _)
decodeLoop(characters, effLen, dest, srcIndex, destIndex, bytesDecoded) ==
    IF srcIndex < effLen
    THEN LET r == decodeWord(SubSeq(characters, srcIndex + 1, srcIndex + 4),
                             dest, destIndex)
         IN  IF r.n < 3
             THEN [dest |-> r.dest, destIndex |-> destIndex, bytesDecoded |-> r.n]
             ELSE decodeLoop(characters, effLen, r.dest, srcIndex + 4,
                             destIndex + 3, r.n)
    ELSE [dest |-> dest, destIndex |-> destIndex, bytesDecoded |-> bytesDecoded]

\* what the caller gets on an error: NULL and *dataLength = 0
DecodeFailure(maxLen, hi) ==
    [isNull |-> TRUE, bytes |-> << >>, dataLength |-> 0, maxLen |-> maxLen,
     wrote |-> hi]

ITBase64DecodedDataCreate(str, len, w) ==
    LET ws == whiteSpaceFreeStringCreate(str, len)
        characters == ws.dest
        effLen == ws.resultLen
        maxLen == UIntWrap(3 * effLen, w) \div 4
    IN  IF effLen % 4 # 0
        THEN DecodeFailure(0, 0)
        ELSE LET l == decodeLoop(characters, effLen, malloc(maxLen), 0, 0, 0)
                 dataLength == UIntWrap(l.destIndex + l.bytesDecoded, w)
             IN  IF l.bytesDecoded > 0 /\ l.bytesDecoded < 3
                 THEN [isNull |-> FALSE,
                       bytes |-> realloc(l.dest, dataLength).mem,
                       dataLength |-> dataLength, maxLen |-> maxLen,
                       wrote |-> l.dest.hi]
                 ELSE IF l.bytesDecoded = 0
                      THEN DecodeFailure(maxLen, l.dest.hi)
                      ELSE [isNull |-> FALSE, bytes |-> l.dest.mem,
                            dataLength |-> l.destIndex, maxLen |-> maxLen,
                            wrote |-> l.dest.hi]

(***************************************************************************)
(* The inputs of the explored calls.                                       *)
(***************************************************************************)
SeqsUpTo(S, n) == UNION {[1..k -> S] : k \in 0..n}

\* 0x00, 'M', 0x60, 'a', 'n', 0xff
ByteValues == {0, 77, 96, 97, 110, 255}

\* 'A', 'Q', '=', '!'
DecChars == {65, 81, 61, 33}

\* 'T', '=', '!', ' ', '\t', '\r', '\n'
WsChars == {84, 61, 33, 32, 9, 13, 10}

\* 'A', 'Q'
WidthChars == {65, 81}

\* 'A', 'Q', '=', ' '
CanonChars == {65, 81, 61, 32}

\* the text with its space, tab, carriage return and newline characters removed
Compact(t) == SelectSeq(t, LAMBDA c : c \notin {32, 9, 13, 10})

\* alphabet-only text, a multiple of 4 long, ending in 0, 1 or 2 '='
IsPaddedBase64(t) ==
    /\ Len(t) % 4 = 0
    /\ \A i \in 1..Len(t) :
           \/ charToByte(t[i]) # 255 /\ t[i] # 61
           \/ t[i] = 61 /\ i = Len(t)
           \/ t[i] = 61 /\ i = Len(t) - 1 /\ t[Len(t)] = 61

NoEncoding == [dest |-> << >>, stringLength |-> 0]

NoDecoding == DecodeFailure(0, 0)

(***************************************************************************)
(* The calls.                                                              *)
(***************************************************************************)
\* ITBase64EncodedStringCreate(data, len, &stringLength)
Encode ==
    /\ pc = "start"
    /\ enc' = ITBase64EncodedStringCreate(data, Len(data), bits)
    /\ pc' = "encoded"
    /\ UNCHANGED <<bits, data, string, dec, dec2>>

\* ITBase64DecodedDataCreate on the text the encoder returned
DecodeEncoded ==
    /\ pc = "encoded"
    /\ dec' = ITBase64DecodedDataCreate(enc.dest, enc.stringLength, bits)
    /\ pc' = "decoded"
    /\ UNCHANGED <<bits, data, string, enc, dec2>>

\* ITBase64DecodedDataCreate(string, len, &dataLength).  A store past the
\* end of the allocated buffer is undefined behaviour: the call may return
\* as computed or the process may die.
Decode ==
    /\ pc = "start"
    /\ LET r == ITBase64DecodedDataCreate(string, Len(string), bits)
       IN  /\ dec' = r
           /\ pc' \in (IF r.wrote > r.maxLen THEN {"decoded", "crashed"}
                       ELSE {"decoded"})
    /\ UNCHANGED <<bits, data, string, enc, dec2>>

\* ITBase64DecodedDataCreate on the same text without its white space
DecodeStripped ==
    /\ pc = "decoded"
    /\ dec2' = ITBase64DecodedDataCreate(Compact(string), Len(Compact(string)), bits)
    /\ pc' = "redecoded"
    /\ UNCHANGED <<bits, data, string, enc, dec>>

\* ITBase64EncodedStringCreate on the bytes the decoder returned
EncodeDecoded ==
    /\ pc = "decoded"
    /\ enc' = ITBase64EncodedStringCreate(dec.bytes, dec.dataLength, bits)
    /\ pc' = "reencoded"
    /\ UNCHANGED <<bits, data, string, dec, dec2>>

(***************************************************************************)
(* Encoding a byte buffer and decoding the result.                         *)
(***************************************************************************)
InitRT ==
    /\ bits = UIntBits
    /\ data \in SeqsUpTo(ByteValues, MaxDataLen)
    /\ string = << >>
    /\ enc = NoEncoding
    /\ dec = NoDecoding
    /\ dec2 = NoDecoding
    /\ pc = "start"

NextRT == Encode \/ DecodeEncoded

SpecRT == InitRT /\ [][NextRT]_vars

(***************************************************************************)
(* Decoding a text without white space.                                    *)
(***************************************************************************)
InitDec ==
    /\ bits = UIntBits
    /\ data = << >>
    /\ string \in SeqsUpTo(DecChars, MaxTextLen)
    /\ enc = NoEncoding
    /\ dec = NoDecoding
    /\ dec2 = NoDecoding
    /\ pc = "start"

NextDec == Decode

SpecDec == InitDec /\ [][NextDec]_vars

(***************************************************************************)
(* Decoding a text with white space, and the same text without it.         *)
(***************************************************************************)
InitWs ==
    /\ bits = UIntBits
    /\ data = << >>
    /\ string \in SeqsUpTo(WsChars, MaxWsLen)
    /\ enc = NoEncoding
    /\ dec = NoDecoding
    /\ dec2 = NoDecoding
    /\ pc = "start"

NextWs == Decode \/ DecodeStripped

SpecWs == InitWs /\ [][NextWs]_vars

(***************************************************************************)
(* Decoding a padded Base64 text and encoding the result.                  *)
(***************************************************************************)
InitCanon ==
    /\ bits = UIntBits
    /\ data = << >>
    /\ string \in {t \in SeqsUpTo(CanonChars, MaxCanonLen) : IsPaddedBase64(Compact(t))}
    /\ enc = NoEncoding
    /\ dec = NoDecoding
    /\ dec2 = NoDecoding
    /\ pc = "start"

NextCanon == Decode \/ EncodeDecoded

SpecCanon == InitCanon /\ [][NextCanon]_vars

(***************************************************************************)
(* Decoding texts of every length an unsigned int of a small width holds.  *)
(***************************************************************************)
InitWidth ==
    /\ bits \in MinBits..MaxBits
    /\ data = << >>
    /\ \E n \in 0..(2 ^ bits - 1), c \in WidthChars : string = [i \in 1..n |-> c]
    /\ enc = NoEncoding
    /\ dec = NoDecoding
    /\ dec2 = NoDecoding
    /\ pc = "start"

NextWidth == Decode

SpecWidth == InitWidth /\ [][NextWidth]_vars

(***************************************************************************)
(* The properties.                                                         *)
(***************************************************************************)
\* the text the encoder returned, without its terminator
EncodedText == SubSeq(enc.dest, 1, enc.stringLength)

\* the number of '=' in t
PadCount(t) == Cardinality({i \in 1..Len(t) : t[i] = 61})

\* the number of bytes decodeWord returns for the k-th group of t (k from 0)
GroupBytes(t, k) == decodeWord(SubSeq(t, 4 * k + 1, 4 * k + 4), malloc(3), 0).n

\* C1: decoding the text the encoder returned for a byte buffer gives back
\* exactly the bytes of the buffer and its length.
RoundTrip ==
    pc = "decoded" =>
        /\ dec.dataLength = Len(data)
        /\ dec.bytes = data

\* C2: the encoded text ends in two '=' when len mod 3 = 1, in one '=' after
\* the symbol for ((last byte & 0x0F) << 2) when len mod 3 = 2, and has no
\* '=' when len mod 3 = 0, whatever the byte values are.
EncoderPadding ==
    pc = "encoded" =>
        LET n == Len(data)
            t == EncodedText
        IN  /\ n % 3 = 0 => PadCount(t) = 0
            /\ n % 3 = 1 =>
                   /\ PadCount(t) = 2
                   /\ t[Len(t) - 1] = 61
                   /\ t[Len(t)] = 61
            /\ n % 3 = 2 =>
                   /\ PadCount(t) = 1
                   /\ t[Len(t)] = 61
                   /\ t[Len(t) - 1] =
                          ITBase64AdditionsEncodingTable[(data[n] % 16) * 4 + 1]

\* C3: when a group that is not the last one decodes to 1 or 2 bytes, the
\* decoder fails: it returns NULL and a dataLength of 0.
TruncatedGroupFails ==
    ( /\ pc = "decoded"
      /\ Len(string) % 4 = 0
      /\ Len(string) >= 8
      /\ \E k \in 0..(Len(string) \div 4 - 2) : GroupBytes(string, k) \in {1, 2} )
    => (dec.isNull /\ dec.dataLength = 0)

\* C4: a text that is empty once its white space is removed decodes to a
\* valid buffer of length 0, which is not the NULL of a failed decode.
EmptyInputSucceeds ==
    (pc \in {"decoded", "redecoded"} /\ Len(Compact(string)) = 0)
    => (~dec.isNull /\ dec.dataLength = 0)

\* C5: when any group of the text, at any index, is one decodeWord returns 0
\* for, the decoder fails: it returns NULL and a dataLength of 0.
InvalidCharacterFails ==
    ( /\ pc = "decoded"
      /\ Len(string) % 4 = 0
      /\ Len(string) > 0
      /\ \E k \in 0..(Len(string) \div 4 - 1) : GroupBytes(string, k) = 0 )
    => (dec.isNull /\ dec.dataLength = 0)

\* C6: encoding the bytes decoded from a padded Base64 text gives the text
\* without its white space, character for character.
CanonicalReencoding ==
    pc = "reencoded" => EncodedText = Compact(string)

WhitespaceTolerance ==
    /\ pc = "redecoded" =>
           /\ dec.isNull = dec2.isNull
           /\ dec.bytes = dec2.bytes
           /\ dec.dataLength = dec2.dataLength
    /\ LET ws == whiteSpaceFreeStringCreate(string, Len(string))
       IN  /\ ws.resultLen = Len(Compact(string))
           /\ SubSeq(ws.dest, 1, ws.resultLen) = Compact(string)
    /\ (pc = "decoded" /\ Len(Compact(string)) % 4 # 0) => dec.isNull

WhitespaceToleranceWitness ==
    /\ pc = "redecoded"
    /\ Len(Compact(string)) < Len(string)
    /\ ~dec.isNull
    /\ dec.dataLength > 0

\* C9: when the decoder succeeds, every '=' of the text is the 3rd or 4th
\* character of its last group.
PaddingOnlyAtEnd ==
    (pc = "decoded" /\ ~dec.isNull) =>
        \A i \in 1..Len(string) :
            string[i] = 61 =>
                /\ i >= Len(string) - 1
                /\ Len(string) % 4 = 0

\* C10: at every width of unsigned int, every index the decoder stores to is
\* below the size maxLen it allocated.
WritesWithinAllocation == dec.wrote <= dec.maxLen

====
